---- MODULE Spec2Model ----
(***************************************************************************)
(* jheatmap data readers: TsvTableReader, TsvMatrixReader, CdmMatrixReader *)
(* A heatmap object (rows, cols, cells tables) is filled by up to three    *)
(* asynchronous loads whose success callbacks may return in any order.     *)
(*                                                                         *)
(* JavaScript values are represented as follows.                           *)
(*   string            a TLA+ string                                       *)
(*   undefined field   the string "undefined" (never a field of any file)  *)
(*   array             a sequence; JS index i is TLA+ index i + 1          *)
(*   null / record     null is <<>>, a record is a non-empty sequence      *)
(*   number|undefined  (local index variables) <<n>> or <<>>               *)
(*   object used as a hash   a function from its own keys to numbers       *)
(***************************************************************************)
EXTENDS Integers, Sequences, FiniteSets, TLC

VARIABLES options, files, rows, cols, cells, pending, runs, initCalls, thrown, locals

vars == <<options, files, rows, cols, cells, pending, runs, initCalls, thrown, locals>>

-----------------------------------------------------------------------------
(* Bounds of the model *)

\* most data lines in a cell-value file
MaxCells == 2
\* most data lines in a row or column annotation file
MaxAxis == 2
\* most times read() is called on the values reader for one heatmap
MaxRuns == 2

-----------------------------------------------------------------------------
(* JavaScript values *)

undefined == "undefined"
null == <<>>
Undef == <<>>
Num(n) == <<n>>
IsNum(x) == x # Undef

\* arr[i] for a JS number i: undefined outside 0 .. length-1
At(arr, i) == IF i \in 0 .. (Len(arr) - 1) THEN arr[i + 1] ELSE undefined

\* arr[k] for a local k that is a number or undefined
AtOpt(arr, k) == IF IsNum(k) THEN At(arr, k[1]) ELSE undefined

\* arr[i] = v for i inside the array
SetAt(arr, i, v) == [j \in 1 .. Len(arr) |-> IF j = i + 1 THEN v ELSE arr[j]]

\* $.inArray(x, arr): the first index holding x, or -1
InArray(x, arr) ==
    IF \E j \in 1 .. Len(arr) : arr[j] = x
    THEN (CHOOSE j \in 1 .. Len(arr) : arr[j] = x /\ \A m \in 1 .. (j - 1) : arr[m] # x) - 1
    ELSE -1

\* names every object inherits from Object.prototype: hash[k] is a function,
\* not undefined, for these k even when k was never stored
ObjectPrototypeKeys == {"constructor"}

\* hash[k]: a stored number, an inherited member, or undefined
HashGet(hash, k) ==
    IF k \in DOMAIN hash THEN [kind |-> "number", n |-> hash[k]]
    ELSE IF k \in ObjectPrototypeKeys THEN [kind |-> "function", n |-> 0]
    ELSE [kind |-> "undefined", n |-> 0]

\* hash[k] = n
HashPut(hash, k, n) == [x \in (DOMAIN hash) \cup {k} |-> IF x = k THEN n ELSE hash[x]]

EmptyHash == [x \in {} |-> 0]

-----------------------------------------------------------------------------
(* The environment: what each url serves, as tokenized lines *)

SeqUpTo(S, n) == UNION {[1 .. k -> S] : k \in 0 .. n}

CellHeader == <<"c", "r", "v">>
RowHeaders == {<<"r">>, <<"x">>}
ColHeaders == {<<"c">>, <<"r">>, <<"r", "c">>}
AxisKeys == {"a", "b"}

\* grid records (column key, row key, value), a record whose row key is a
\* member of Object.prototype, and a line with a single field
CellRecords ==
    {<<c, r, v>> : c \in AxisKeys, r \in AxisKeys, v \in {"1", "2"}}
        \cup {<<"a", "constructor", "1">>, <<"a">>}

\* an annotation record: the key in the last field of the header's width
AxisRecord(header, k) == [j \in 1 .. Len(header) |-> IF j = Len(header) THEN k ELSE "n"]

\* every file ends with a newline, so its last line is empty
Blank == <<>>

AxisFiles(headers) ==
    {<<h>> \o [j \in 1 .. Len(ks) |-> AxisRecord(h, ks[j])] \o <<Blank>> :
        h \in headers, ks \in SeqUpTo(AxisKeys, MaxAxis)}

CellFiles == {<<CellHeader>> \o rs \o <<Blank>> : rs \in SeqUpTo(CellRecords, MaxCells)}

\* the wide-format file of the reader's documentation, with a label in the header
WideExample ==
    <<<<"Row", "col1", "col2">>, <<"r1", "0.11", "0.12">>, <<"r2", "0.21", "0.22">>, Blank>>

CdmFiles == CellFiles \cup {WideExample}

NoFile == <<>>

RowAnnotations == {Undef, <<1, 2>>}
ColAnnotations == {Undef, <<0>>}

\* options.data of the heatmap: rows / cols say whether a reader is configured
Configurations ==
    {o \in [rows : BOOLEAN, cols : BOOLEAN,
            rows_annotations : RowAnnotations, cols_annotations : ColAnnotations,
            values : {"tsv", "cdm"}, orderedValues : BOOLEAN] :
        /\ o.rows => o.rows_annotations = Undef
        /\ o.cols => o.cols_annotations = Undef
        /\ (o.values = "cdm" \/ o.orderedValues) =>
              /\ ~o.rows /\ ~o.cols
              /\ o.rows_annotations = Undef /\ o.cols_annotations = Undef
        /\ o.values = "cdm" => ~o.orderedValues}

-----------------------------------------------------------------------------
(* Line loop shared by the three readers *)

Skipped(line) == Len(line) = 0 \/ line[1] = "#"

RECURSIVE ParseLines(_, _, _)
\* jQuery.each(lines, ...) from lineCount on: line 0 is the header,
\* every other kept line is appended to values
ParseLines(table, lines, lineCount) ==
    IF lineCount >= Len(lines) THEN table
    ELSE LET line == lines[lineCount + 1]
             next == IF Skipped(line) THEN table
                     ELSE IF lineCount = 0 THEN [table EXCEPT !.header = line]
                     ELSE [table EXCEPT !.values = Append(@, line)]
         IN ParseLines(next, lines, lineCount + 1)

-----------------------------------------------------------------------------
(* TsvMatrixReader: key inference *)

RECURSIVE RowKeyLoop(_, _, _, _)
\* for (i ...) if ((valuesRowKey = $.inArray(rows.header[i], cells.header)) > -1)
\*                 { rowKey = i; break; }
RowKeyLoop(axisHeader, cellHeader, i, valuesKey) ==
    IF i >= Len(axisHeader) THEN [key |-> Undef, valuesKey |-> valuesKey]
    ELSE LET v == InArray(axisHeader[i + 1], cellHeader)
         IN IF v > -1 THEN [key |-> Num(i), valuesKey |-> Num(v)]
            ELSE RowKeyLoop(axisHeader, cellHeader, i + 1, Num(v))

\* the test that lets the column search accept a match
ColKeyAccepts(valuesColKey, valuesRowKey) == valuesColKey # valuesRowKey

RECURSIVE ColKeyLoop(_, _, _, _, _)
\* as RowKeyLoop, but a match equal to valuesRowKey is passed over
ColKeyLoop(axisHeader, cellHeader, valuesRowKey, i, valuesKey) ==
    IF i >= Len(axisHeader) THEN [key |-> Undef, valuesKey |-> valuesKey]
    ELSE LET v == InArray(axisHeader[i + 1], cellHeader)
         IN IF v > -1 /\ ColKeyAccepts(Num(v), valuesRowKey)
            THEN [key |-> Num(i), valuesKey |-> Num(v)]
            ELSE ColKeyLoop(axisHeader, cellHeader, valuesRowKey, i + 1, Num(v))

RECURSIVE Relocate(_, _, _, _)
\* for (i ...) { axis.header.push(cells.header[ann[i]]); cells.header[ann[i]] = undefined; }
\* (the annotation indices of Configurations lie inside the cell header)
Relocate(ann, i, axisHeader, cellHeader) ==
    IF i >= Len(ann) THEN [axisHeader |-> axisHeader, cellHeader |-> cellHeader]
    ELSE Relocate(ann, i + 1, Append(axisHeader, At(cellHeader, ann[i + 1])),
                  SetAt(cellHeader, ann[i + 1], undefined))

\* the key of an axis: [key, valuesKey, axisHeader, cellHeader]
\* declared: whether options.data.<axis> is defined; ann: options.data.<axis>_annotations;
\* default: the cell field used when nothing is configured (1 for rows, 0 for cols)
AxisKey(declared, ann, default, search, axisHeader, cellHeader) ==
    IF declared
    THEN [key |-> search.key, valuesKey |-> search.valuesKey,
          axisHeader |-> axisHeader, cellHeader |-> cellHeader]
    ELSE IF ann # Undef
    THEN LET m == Relocate(ann, 0, <<>>, cellHeader)
         IN [key |-> Num(0), valuesKey |-> Num(ann[1]),
             axisHeader |-> m.axisHeader, cellHeader |-> m.cellHeader]
    ELSE [key |-> Num(0), valuesKey |-> Num(default),
          axisHeader |-> <<At(cellHeader, default)>>, cellHeader |-> cellHeader]

DefaultRowField == 1
DefaultColField == 0

-----------------------------------------------------------------------------
(* TsvMatrixReader: hashes *)

RECURSIVE BuildHash(_, _, _, _)
\* for (i ...) hash[(axis.values[i][key]).toString()] = i;
\* toString of undefined throws a TypeError
BuildHash(values, key, i, hash) ==
    IF i >= Len(values) THEN [hash |-> hash, thrown |-> FALSE]
    ELSE LET k == AtOpt(values[i + 1], key)
         IN IF k = undefined THEN [hash |-> hash, thrown |-> TRUE]
            ELSE BuildHash(values, key, i + 1, HashPut(hash, k, i))

hole == <<"hole">>
\* value != null is false for null and for an empty slot
IsNullish(x) == x = null \/ x = hole

\* the axis record built from a cell record: [values[f] for f in fields]
AxisRecordOf(values, fields) == [j \in 1 .. Len(fields) |-> AtOpt(values, fields[j])]

\* the fields copied into a discovered axis record
AxisFields(ann, valuesKey) ==
    IF ann # Undef THEN [j \in 1 .. Len(ann) |-> Num(ann[j])] ELSE <<valuesKey>>

\* if (hash[(values[valuesKey]).toString()] == undefined) { append a record, store its position }
\* d: [hash, values, thrown]
DiscoverAxis(d, values, valuesKey, fields) ==
    LET k == AtOpt(values, valuesKey)
    IN IF k = undefined THEN [d EXCEPT !.thrown = TRUE]
       ELSE IF HashGet(d.hash, k).kind = "undefined"
       THEN [d EXCEPT !.hash = HashPut(@, k, Len(d.values)),
                      !.values = Append(@, AxisRecordOf(values, fields))]
       ELSE d

RECURSIVE Discover(_, _, _, _, _, _, _)
\* one scan of cells.values that fills both hashes and appends to both axes
Discover(cellValues, i, r, c, o, valuesRowKey, valuesColKey) ==
    IF i >= Len(cellValues) THEN [r |-> r, c |-> c]
    ELSE LET values == cellValues[i + 1]
         IN IF IsNullish(values)
            THEN Discover(cellValues, i + 1, r, c, o, valuesRowKey, valuesColKey)
            ELSE LET r1 == DiscoverAxis(r, values, valuesRowKey,
                                        AxisFields(o.rows_annotations, valuesRowKey))
                 IN IF r1.thrown THEN [r |-> r1, c |-> c]
                    ELSE LET c1 == DiscoverAxis(c, values, valuesColKey,
                                                AxisFields(o.cols_annotations, valuesColKey))
                         IN IF c1.thrown THEN [r |-> r1, c |-> c1]
                            ELSE Discover(cellValues, i + 1, r1, c1, o,
                                          valuesRowKey, valuesColKey)

-----------------------------------------------------------------------------
(* TsvMatrixReader: the dense matrix *)

\* a null matrix one slot short (pos < totalPos - 1)
NullMatrixShort(totalPos) == [p \in 1 .. (totalPos - 1) |-> null]

NullMatrix(totalPos) == [p \in 1 .. totalPos |-> null]

\* rowIndex * cl + colIndex: a number when both lookups gave numbers, else NaN (Undef)
LinearPos(rowIndex, cl, colIndex) ==
    IF rowIndex.kind = "number" /\ colIndex.kind = "number"
    THEN Num(rowIndex.n * cl + colIndex.n)
    ELSE Undef

\* a store that keeps what a slot already holds
StoreKeepFirst(f, pos, value) ==
    IF ~IsNum(pos) THEN [f EXCEPT !.NaN = value]
    ELSE IF pos[1] < Len(f.arr)
    THEN [f EXCEPT !.arr = IF @[pos[1] + 1] = null THEN SetAt(@, pos[1], value) ELSE @]
    ELSE [f EXCEPT !.arr = @ \o [j \in 1 .. (pos[1] - Len(@)) |-> hole] \o <<value>>]

\* a store that coerces a NaN position to slot 0 (cellValues[pos || 0])
StoreNaNAsZero(f, pos, value) ==
    IF ~IsNum(pos)
    THEN [f EXCEPT !.arr = IF Len(@) > 0 THEN SetAt(@, 0, value) ELSE <<value>>]
    ELSE IF pos[1] < Len(f.arr) THEN [f EXCEPT !.arr = SetAt(@, pos[1], value)]
    ELSE [f EXCEPT !.arr = @ \o [j \in 1 .. (pos[1] - Len(@)) |-> hole] \o <<value>>]

\* cellValues[pos] = value: inside the array the slot is replaced, past its end the
\* array grows with empty slots, and pos = NaN sets the property "NaN"
Store(f, pos, value) ==
    IF ~IsNum(pos) THEN [f EXCEPT !.NaN = value]
    ELSE IF pos[1] < Len(f.arr) THEN [f EXCEPT !.arr = SetAt(@, pos[1], value)]
    ELSE [f EXCEPT !.arr = @ \o [j \in 1 .. (pos[1] - Len(@)) |-> hole] \o <<value>>]

RECURSIVE Fill(_, _, _, _, _)
\* for (i ...) { value = cells.values[i]; if (value != null) cellValues[pos] = value; }
Fill(cellValues, i, f, l, cl) ==
    IF i >= Len(cellValues) THEN f
    ELSE LET value == cellValues[i + 1]
         IN IF IsNullish(value) THEN Fill(cellValues, i + 1, f, l, cl)
            ELSE LET rowIndex == HashGet(l.rowHash, AtOpt(value, l.valuesRowKey))
                     colIndex == HashGet(l.colHash, AtOpt(value, l.valuesColKey))
                 IN Fill(cellValues, i + 1, Store(f, LinearPos(rowIndex, cl, colIndex), value),
                         l, cl)

-----------------------------------------------------------------------------
(* State after construction, and the loads issued by the caller *)

EmptyTable == [header |-> <<>>, values |-> <<>>, ready |-> FALSE]

NoLocals ==
    [sparse |-> <<>>, rowKey |-> Undef, valuesRowKey |-> Undef,
     colKey |-> Undef, valuesColKey |-> Undef,
     rowHash |-> EmptyHash, colHash |-> EmptyHash, totalPos |-> 0, cl |-> 0,
     axesReady |-> FALSE, assembled |-> FALSE]

Init ==
    /\ options \in Configurations
    /\ files \in [rows : IF options.rows THEN AxisFiles(RowHeaders) ELSE {NoFile},
                  cols : IF options.cols THEN AxisFiles(ColHeaders) ELSE {NoFile},
                  values : IF options.values = "cdm" THEN CdmFiles ELSE CellFiles]
    /\ rows = [EmptyTable EXCEPT !.ready = ~options.rows]
    /\ cols = [EmptyTable EXCEPT !.ready = ~options.cols]
    /\ cells = [header |-> <<>>, values |-> <<>>, ready |-> FALSE, NaN |-> null]
    /\ pending = {"values"} \cup (IF options.rows THEN {"rows"} ELSE {})
                            \cup (IF options.cols THEN {"cols"} ELSE {})
    /\ runs = 1
    /\ initCalls = {}
    /\ thrown = FALSE
    /\ locals = NoLocals

\* TsvTableReader success callback for the rows table
RowsLoaded ==
    /\ "rows" \in pending
    /\ rows' = [ParseLines(rows, files.rows, 0) EXCEPT !.ready = TRUE]
    /\ initCalls' = initCalls \cup {"rows"}
    /\ pending' = pending \ {"rows"}
    /\ UNCHANGED <<options, files, cols, cells, runs, thrown, locals>>

\* TsvTableReader success callback for the cols table
ColsLoaded ==
    /\ "cols" \in pending
    /\ cols' = [ParseLines(cols, files.cols, 0) EXCEPT !.ready = TRUE]
    /\ initCalls' = initCalls \cup {"cols"}
    /\ pending' = pending \ {"cols"}
    /\ UNCHANGED <<options, files, rows, cells, runs, thrown, locals>>

\* lines 116-181: the keys of both axes, the row axis first (k: [rk, ck])
AssembleKeys(o, c, rk) ==
    [rk |-> rk,
     ck |-> AxisKey(o.cols, o.cols_annotations, DefaultColField,
                    ColKeyLoop(c.header, rk.cellHeader, rk.valuesKey, 0, Undef),
                    c.header, rk.cellHeader)]

\* lines 184-236: both hashes and both axis tables, [r, c] of [hash, values, thrown]
AssembleHashes(o, r0, c0, ce, k) ==
    IF o.rows /\ o.cols
    THEN LET rh == BuildHash(r0.values, k.rk.key, 0, EmptyHash)
             ch == BuildHash(c0.values, k.ck.key, 0, EmptyHash)
         IN IF rh.thrown THEN [r |-> [r0 EXCEPT !.thrown = TRUE], c |-> c0]
            ELSE [r |-> [r0 EXCEPT !.hash = rh.hash],
                  c |-> [c0 EXCEPT !.hash = ch.hash, !.thrown = ch.thrown]]
    ELSE Discover(ce.values, 0, r0, c0, o, k.rk.valuesKey, k.ck.valuesKey)

\* the callback's local variables as it left them (sparse: cells.values before the
\* dense array replaced it; axesReady: rows.ready && cols.ready on entry)
AssembleLocals(r, c, ce, k, h) ==
    [sparse |-> ce.values, rowKey |-> k.rk.key, valuesRowKey |-> k.rk.valuesKey,
     colKey |-> k.ck.key, valuesColKey |-> k.ck.valuesKey,
     rowHash |-> h.r.hash, colHash |-> h.c.hash,
     totalPos |-> Len(h.r.values) * Len(h.c.values), cl |-> Len(h.c.values),
     axesReady |-> r.ready /\ c.ready, assembled |-> ~(h.r.thrown \/ h.c.thrown)]

\* lines 264-265: the swap, skipped when the callback threw; f: [arr, NaN] after the fill
AssembleSwap(r, c, ce, k, h, l, f) ==
    [rows |-> [r EXCEPT !.header = k.rk.axisHeader, !.values = h.r.values],
     cols |-> [c EXCEPT !.header = k.ck.axisHeader, !.values = h.c.values],
     cells |-> IF ~l.assembled THEN [ce EXCEPT !.header = k.ck.cellHeader]
               ELSE [ce EXCEPT !.header = k.ck.cellHeader, !.values = f.arr,
                               !.NaN = f.NaN, !.ready = TRUE],
     locals |-> l,
     thrown |-> ~l.assembled]

\* lines 241-261: the null matrix and the fill loop
AssembleFill(r, c, ce, k, h, l) ==
    AssembleSwap(r, c, ce, k, h, l,
                 Fill(ce.values, 0, [arr |-> NullMatrix(l.totalPos), NaN |-> null], l, l.cl))

\* lines 241-246: totalPos and cl from the axis tables as the hashes stage left them
AssembleFrom(r, c, ce, k, h) ==
    AssembleFill(r, c, ce, k, h, AssembleLocals(r, c, ce, k, h))

\* lines 184-185: both hashes start empty, the axis tables as they are on entry
AssembleWith(o, r, c, ce, k) ==
    AssembleFrom(r, c, ce, k,
                 AssembleHashes(o, [hash |-> EmptyHash, values |-> r.values, thrown |-> FALSE],
                                [hash |-> EmptyHash, values |-> c.values, thrown |-> FALSE],
                                ce, k))

\* lines 116-265 of the success callback: the state it leaves, and whether it threw
\* r, c: heatmap.rows, heatmap.cols; ce: heatmap.cells after the line loop
Assemble(o, r, c, ce) ==
    AssembleWith(o, r, c, ce,
                 AssembleKeys(o, c,
                              AxisKey(o.rows, o.rows_annotations, DefaultRowField,
                                      RowKeyLoop(r.header, ce.header, 0, Undef),
                                      r.header, ce.header)))

\* lines 269-271: ready and the initialize callback, unless the callback threw
Publish(a) ==
    /\ rows' = a.rows
    /\ cols' = a.cols
    /\ cells' = a.cells
    /\ locals' = a.locals
    /\ thrown' = a.thrown
    /\ initCalls' = IF a.thrown THEN initCalls ELSE initCalls \cup {"values"}

\* the orderedValues branch: the parsed table is left as it is
PublishOrdered(ce) ==
    /\ cells' = [ce EXCEPT !.ready = TRUE]
    /\ initCalls' = initCalls \cup {"values"}
    /\ thrown' = FALSE
    /\ UNCHANGED <<rows, cols, locals>>

\* the callback from the line loop on
AfterLines(ce) ==
    IF options.orderedValues THEN PublishOrdered(ce)
    ELSE Publish(Assemble(options, rows, cols, ce))

\* TsvMatrixReader success callback
ValuesLoaded ==
    /\ "values" \in pending
    /\ options.values = "tsv"
    /\ pending' = pending \ {"values"}
    /\ AfterLines(ParseLines(cells, files.values, 0))
    /\ UNCHANGED <<options, files, runs>>

\* a header loop that passes over the first (label) field
CdmColumnsSkipLabel(colValues, cellHeader) ==
    colValues \o [j \in 1 .. (Len(cellHeader) - 1) |-> <<cellHeader[j + 1]>>]

\* cols.values after the header loop: one record per field of the cell header
CdmColumns(colValues, cellHeader) ==
    colValues \o [j \in 1 .. Len(cellHeader) |-> <<cellHeader[j]>>]

\* the cells one row contributes: [ cells.values[row][col + 1] ] for every col
CdmRowCells(record, nCols) == [j \in 1 .. nCols |-> <<At(record, j)>>]

RECURSIVE CdmRows(_, _, _, _, _)
\* for (row ...) { rows.values.push([record[0]]); for (col ...) cellValues.push(...) }
CdmRows(cellValues, row, rowValues, dense, nCols) ==
    IF row >= Len(cellValues) THEN [rowValues |-> rowValues, dense |-> dense]
    ELSE CdmRows(cellValues, row + 1,
                 Append(rowValues, <<At(cellValues[row + 1], 0)>>),
                 dense \o CdmRowCells(cellValues[row + 1], nCols), nCols)

\* CdmMatrixReader success callback
CdmLoaded ==
    /\ "values" \in pending
    /\ options.values = "cdm"
    /\ pending' = pending \ {"values"}
    /\ LET ce == ParseLines(cells, files.values, 0)
           colValues == CdmColumns(cols.values, ce.header)
           m == CdmRows(ce.values, 0, rows.values, <<>>, Len(colValues))
       IN /\ cols' = [cols EXCEPT !.header = <<"Column">>, !.values = colValues]
          /\ rows' = [rows EXCEPT !.header = <<"Row">>, !.values = m.rowValues]
          /\ cells' = [ce EXCEPT !.header = <<"Value">>, !.values = m.dense, !.ready = TRUE]
          /\ locals' = [locals EXCEPT !.sparse = ce.values]
    /\ initCalls' = initCalls \cup {"values"}
    /\ thrown' = FALSE
    /\ UNCHANGED <<options, files, runs>>

\* read() called once more on the values reader of a loaded heatmap
ReadAgain ==
    /\ pending = {}
    /\ runs < MaxRuns
    /\ runs' = runs + 1
    /\ pending' = {"values"}
    /\ UNCHANGED <<options, files, rows, cols, cells, initCalls, thrown, locals>>

Next == RowsLoaded \/ ColsLoaded \/ ValuesLoaded \/ CdmLoaded \/ ReadAgain

Spec == Init /\ [][Next]_vars
-----------------------------------------------------------------------------
(* Properties *)

Range(seq) == {seq[j] : j \in 1 .. Len(seq)}

\* the step taken by the TsvMatrixReader callback when it assembles and does not throw
AssemblyStep ==
    /\ "values" \in pending
    /\ "values" \notin pending'
    /\ options.values = "tsv"
    /\ ~options.orderedValues
    /\ ~thrown'

\* the dense array left by an assembly that completed is in place
Assembled == cells.ready /\ locals.assembled /\ options.values = "tsv" /\ ~options.orderedValues

\* the position a cell record resolves to through the two hashes, <<>> when a lookup misses
RowIndexOf(rec) == HashGet(locals.rowHash, AtOpt(rec, locals.valuesRowKey))
ColIndexOf(rec) == HashGet(locals.colHash, AtOpt(rec, locals.valuesColKey))
Resolves(rec) ==
    rec # null /\ RowIndexOf(rec).kind = "number" /\ ColIndexOf(rec).kind = "number"
PosOf(rec) == RowIndexOf(rec).n * locals.cl + ColIndexOf(rec).n

\* C1: when the assembly (orderedValues false) completes, cells.values has exactly
\* rows.values.length * cols.values.length slots, which is the length the null matrix
\* was allocated with, and every slot holds null or one of the cell-table records
C1_DenseLengthAndCompleteness ==
    [][AssemblyStep =>
          /\ Len(cells'.values) = Len(rows'.values) * Len(cols'.values)
          /\ Len(cells'.values) = locals'.totalPos
          /\ \A p \in 1 .. Len(cells'.values) :
                cells'.values[p] = null \/ cells'.values[p] \in Range(locals'.sparse)]_vars

\* C1 happens: a completed 2 x 2 assembly with a null slot and a filled slot
C1_Witness ==
    /\ Assembled
    /\ Len(rows.values) = 2 /\ Len(cols.values) = 2 /\ Len(cells.values) = 4
    /\ \E p, q \in 1 .. 4 : cells.values[p] = null /\ cells.values[q] # null

\* the join key of the record at a position of an axis table
RowKeyAt(i) == AtOpt(rows.values[i], locals.rowKey)
ColKeyAt(j) == AtOpt(cols.values[j], locals.colKey)

\* C2: after an assembly that ran with every declared axis table loaded and found both
\* keys, the join keys that the records of rows.values hold are pairwise distinct, and
\* so are those of cols.values
C2_KeysPairwiseDistinct ==
    (Assembled /\ locals.axesReady /\ IsNum(locals.rowKey) /\ IsNum(locals.colKey)) =>
        /\ \A i1, i2 \in 1 .. Len(rows.values) :
              (i1 # i2 /\ RowKeyAt(i1) # undefined) => RowKeyAt(i1) # RowKeyAt(i2)
        /\ \A j1, j2 \in 1 .. Len(cols.values) :
              (j1 # j2 /\ ColKeyAt(j1) # undefined) => ColKeyAt(j1) # ColKeyAt(j2)

\* C3: when two cell-table records resolve to the same slot, the slot holds the one
\* that comes last in the cell table
C3_LastRecordWins ==
    Assembled =>
        \A i \in 1 .. Len(locals.sparse) :
            Resolves(locals.sparse[i]) =>
                LET p == PosOf(locals.sparse[i])
                    same == {j \in 1 .. Len(locals.sparse) :
                                Resolves(locals.sparse[j]) /\ PosOf(locals.sparse[j]) = p}
                    last == CHOOSE j \in same : \A m \in same : m <= j
                IN cells.values[p + 1] = locals.sparse[last]

\* C3 happens: two different records of one (row, column) pair were assembled
C3_Witness ==
    /\ Assembled
    /\ \E i, j \in 1 .. Len(locals.sparse) :
          /\ i < j
          /\ Resolves(locals.sparse[i]) /\ Resolves(locals.sparse[j])
          /\ PosOf(locals.sparse[i]) = PosOf(locals.sparse[j])
          /\ locals.sparse[i] # locals.sparse[j]
          /\ cells.values[PosOf(locals.sparse[j]) + 1] = locals.sparse[j]
\* the wide-format reader has run once, on axis tables that were empty
CdmDone == options.values = "cdm" /\ cells.ready /\ runs = 1
\* the header and the data records of the wide-format file
WideHeader == files.values[1]
WideRecords == locals.sparse

\* C4 as claimed: rowCount = m, columnCount = n - 1, the key of column j is header
\* field j + 1, the key of row i is field 0 of record i, and the value at (i, j) is
\* field j + 1 of record i
C4_WideShapeAsClaimed ==
    CdmDone =>
        LET n == Len(WideHeader)
            m == Len(WideRecords)
        IN /\ Len(rows.values) = m
           /\ Len(cols.values) = n - 1
           /\ \A j \in 0 .. (n - 2) : cols.values[j + 1] = <<At(WideHeader, j + 1)>>
           /\ \A i \in 0 .. (m - 1) : rows.values[i + 1] = <<At(WideRecords[i + 1], 0)>>
           /\ \A i \in 0 .. (m - 1) : \A j \in 0 .. (n - 2) :
                 cells.values[i * (n - 1) + j + 1] = <<At(WideRecords[i + 1], j + 1)>>

\* C4 amended: rowCount = m, columnCount = n (every header field is a column, the
\* first included), the key of column j is header field j, the key of row i is field 0
\* of record i, and the value at (i, j) is the one-field record of field j + 1 of
\* record i (undefined when the record has no such field)
C4_WideShape ==
    CdmDone =>
        LET n == Len(WideHeader)
            m == Len(WideRecords)
        IN /\ Len(rows.values) = m
           /\ Len(cols.values) = n
           /\ Len(cells.values) = m * n
           /\ \A j \in 0 .. (n - 1) : cols.values[j + 1] = <<At(WideHeader, j)>>
           /\ \A i \in 0 .. (m - 1) : rows.values[i + 1] = <<At(WideRecords[i + 1], 0)>>
           /\ \A i \in 0 .. (m - 1) : \A j \in 0 .. (n - 1) :
                 cells.values[i * n + j + 1] = <<At(WideRecords[i + 1], j + 1)>>

\* C4 happens: the documented example was read: 2 rows, 3 columns, the label "Row" is
\* column 0 and the value at (1, 0) is "0.21"
C4_Witness ==
    /\ CdmDone
    /\ files.values = WideExample
    /\ Len(rows.values) = 2 /\ Len(cols.values) = 3
    /\ cols.values[1] = <<"Row">>
    /\ cells.values[1 * 3 + 0 + 1] = <<"0.21">>
    /\ cells.values[1 * 3 + 2 + 1] = <<undefined>>
\* both annotation tables are declared
Declared == options.rows /\ options.cols /\ options.values = "tsv" /\ ~options.orderedValues

\* the keys the declared axis tables list
RowTableKeys == {RowKeyAt(i) : i \in 1 .. Len(rows.values)}
ColTableKeys == {ColKeyAt(j) : j \in 1 .. Len(cols.values)}

\* a cell record whose row key or column key no record of the axis tables holds
Unmatched(rec) ==
    /\ rec # null
    /\ \/ AtOpt(rec, locals.valuesRowKey) \notin RowTableKeys
       \/ AtOpt(rec, locals.valuesColKey) \notin ColTableKeys

\* the callback has run with both tables loaded and found a join key for each
DeclaredRun ==
    /\ Declared
    /\ locals.axesReady
    /\ IsNum(locals.rowKey) /\ IsNum(locals.colKey)

NoMatch(axisFile, cellFile) ==
    \A j \in 1 .. Len(axisFile[1]) : InArray(axisFile[1][j], cellFile[1]) = -1

\* C6: with both tables declared, when no field of an axis header is in the cell header
\* and the callback has run (once, with both tables loaded), cells.ready is not set
\* and the values reader has not invoked initialize
C6_NoMatchAborts ==
    (/\ Declared
     /\ NoMatch(files.rows, files.values) \/ NoMatch(files.cols, files.values)
     /\ locals.axesReady /\ runs = 1) =>
        /\ ~cells.ready
        /\ "values" \notin initCalls

\* C7: when both tables are declared and the assembly ran with both loaded and filled
\* the matrix, the cell-header index of the row key differs from that of the column key
C7_KeyIndicesDiffer ==
    (Declared /\ locals.axesReady /\ locals.assembled) =>
        locals.valuesRowKey # locals.valuesColKey

\* C8: the assembly runs only after every declared axis load has completed
\* (rows.ready and cols.ready on entry to the callback)
C8_AssemblyAfterAxisLoads ==
    (options.values = "tsv" /\ ~options.orderedValues /\ locals.assembled) =>
        locals.axesReady
\* the step of a second run of the callback on a heatmap whose first run assembled
\* with every declared table loaded
SecondRunStep ==
    /\ "values" \in pending
    /\ "values" \notin pending'
    /\ options.values = "tsv" /\ ~options.orderedValues
    /\ runs = 2
    /\ locals.assembled /\ locals.axesReady

\* C9: a second run on the same input leaves the dense array, the row and column
\* records and the two key-to-position mappings as the first run left them
C9_SecondRunChangesNothing ==
    [][SecondRunStep =>
          /\ cells'.values = cells.values
          /\ rows'.values = rows.values
          /\ cols'.values = cols.values
          /\ locals'.rowHash = locals.rowHash
          /\ locals'.colHash = locals.colHash]_vars

\* neither axis has an annotation table, and the first run of the callback completed
DiscoveryDone ==
    /\ ~options.rows /\ ~options.cols
    /\ Assembled
    /\ runs = 1

\* the keys of the cell records, each once, in the order of their first occurrence
RECURSIVE FirstSeen(_, _, _, _)
FirstSeen(recs, i, valuesKey, seen) ==
    IF i > Len(recs) THEN seen
    ELSE LET k == AtOpt(recs[i], valuesKey)
         IN FirstSeen(recs, i + 1, valuesKey,
                      IF recs[i] = null \/ k \in Range(seen) THEN seen ELSE Append(seen, k))

\* the 0-based rank of a key among the keys first seen
RankOf(k, seen) == (CHOOSE j \in 1 .. Len(seen) : seen[j] = k) - 1

\* C10: in discovery mode the rows are the distinct row keys of the non-null cell
\* records in order of first occurrence, one record each, and so are the columns;
\* the slot of rank(row) * columnCount + rank(column) holds a record of that key
\* pair (the last one), and the slot of a pair that no record has is null
C10_DiscoveryByFirstOccurrence ==
    DiscoveryDone =>
        LET rowKeys == FirstSeen(locals.sparse, 1, locals.valuesRowKey, <<>>)
            colKeys == FirstSeen(locals.sparse, 1, locals.valuesColKey, <<>>)
            recs == {rec \in Range(locals.sparse) : rec # null}
            pair(rec) == <<AtOpt(rec, locals.valuesRowKey), AtOpt(rec, locals.valuesColKey)>>
        IN /\ Len(rows.values) = Len(rowKeys)
           /\ Len(cols.values) = Len(colKeys)
           /\ \A i \in 1 .. Len(rowKeys) : At(rows.values[i], 0) = rowKeys[i]
           /\ \A j \in 1 .. Len(colKeys) : At(cols.values[j], 0) = colKeys[j]
           /\ \A k \in Range(rowKeys) : HashGet(locals.rowHash, k).n = RankOf(k, rowKeys)
           /\ \A k \in Range(colKeys) : HashGet(locals.colHash, k).n = RankOf(k, colKeys)
           /\ Len(cells.values) = Len(rowKeys) * Len(colKeys)
           /\ \A rec \in recs :
                 LET p == RankOf(pair(rec)[1], rowKeys) * Len(colKeys)
                              + RankOf(pair(rec)[2], colKeys) + 1
                 IN cells.values[p] \in recs /\ pair(cells.values[p]) = pair(rec)
           /\ \A i \in 1 .. Len(rowKeys) : \A j \in 1 .. Len(colKeys) :
                 (\A rec \in recs : pair(rec) # <<rowKeys[i], colKeys[j]>>) =>
                     cells.values[(i - 1) * Len(colKeys) + j] = null

\* the callback has indexed both declared tables, loaded and with a join key each,
\* and has filled the matrix
DeclaredDone == DeclaredRun /\ locals.assembled /\ cells.ready

\* the 0-based position of the first record of the rows (cols) table that holds key k
FirstRowOf(k) == (CHOOSE i \in 1 .. Len(rows.values) :
                      RowKeyAt(i) = k /\ \A i2 \in 1 .. (i - 1) : RowKeyAt(i2) # k) - 1
FirstColOf(k) == (CHOOSE j \in 1 .. Len(cols.values) :
                      ColKeyAt(j) = k /\ \A j2 \in 1 .. (j - 1) : ColKeyAt(j2) # k) - 1

\* C11: with both tables declared, rowHash and colHash map every key of the table to
\* the position of the first record that holds it, and every cell record in the dense
\* array is in the row and the column of the first record holding its keys
C11_DuplicateKeyFirstOccurrence ==
    DeclaredDone =>
        /\ \A i \in 1 .. Len(rows.values) :
              HashGet(locals.rowHash, RowKeyAt(i)).n = FirstRowOf(RowKeyAt(i))
        /\ \A j \in 1 .. Len(cols.values) :
              HashGet(locals.colHash, ColKeyAt(j)).n = FirstColOf(ColKeyAt(j))
        /\ \A p \in 1 .. Len(cells.values) :
              cells.values[p] # null =>
                  p - 1 = FirstRowOf(AtOpt(cells.values[p], locals.valuesRowKey)) * locals.cl
                          + FirstColOf(AtOpt(cells.values[p], locals.valuesColKey))
====
